---- MODULE Spec2Model ----
(***************************************************************************)
(* A model of the version-control core of Helio Workstation               *)
(* (Source/Core/VCS/VersionControl.cpp).  VersionControl composes a Pack, *)
(* a Head, a StashesRepository and a tree of Revisions.  The orchestrator *)
(* is translated from VersionControl.cpp; Head, Revision, RevisionItem,   *)
(* Pack and StashesRepository have no source file here and are modelled   *)
(* from their description in the design document.                         *)
(***************************************************************************)
EXTENDS Integers, Sequences, FiniteSets, TLC

VARIABLES revs, root, head, stashes, quick, pack, live, docPending, last

vars == <<revs, root, head, stashes, quick, pack, live, docPending, last>>

(***************************************************************************)
(* Bounds and input sets                                                   *)
(***************************************************************************)

\* the number of revisions (tree and stashes together) ever allocated
MaxRevs == 3

\* the tracked entities of the document, in document order
IdOrder == <<"A", "B", "C">>

TrackedIds == {IdOrder[i] : i \in 1..Len(IdOrder)}

\* a tracked entity that is absent from the live document
Absent == 0

\* the states the user gives an entity: A is edited between two states,
\* B is deleted and added again, C is left alone
Vals(id) == IF id = "A" THEN {1, 2} ELSE IF id = "B" THEN {1, Absent} ELSE {1}

\* the entities the user edits
Editable == {"A"}

Messages == {"msg"}

\* the content hashes are uint32 in the program; the model keeps them
\* below this modulus, within the integers the model checker handles
HashMod == 65536

(***************************************************************************)
(* RevisionItem, Revision                                                  *)
(***************************************************************************)

NoItem == [target |-> "", kind |-> "None", payload |-> 0]

Item(t, k, p) == [target |-> t, kind |-> k, payload |-> p]

\* Revision::Revision(pack, message): a new revision, no items, no
\* children, not flushed
NewRevision(msg) ==
    [message |-> msg, items |-> {}, children |-> <<>>, flushed |-> FALSE]

\* Revision::flush: the payloads of the items are pushed into the pack
RevisionFlush(rev) == [rev EXCEPT !.flushed = TRUE]

\* the revision getRevisionById builds for "not found": it lives outside
\* the arena and is the only revision that reports isEmpty()
EmptyRev == 0

isEmpty(r) == r = EmptyRev

\* Revision::addItem: at most one item per target id
addItem(rev, it) ==
    [rev EXCEPT !.items = {x \in @ : x.target # it.target} \cup {it}]

\* Revision::addChild: attaches the child last, no uniqueness check
addChild(rev, childId) == [rev EXCEPT !.children = Append(@, childId)]

\* a fresh Uuid: an id no revision of the arena has
FreshId == IF DOMAIN revs = {} THEN 1
           ELSE 1 + (CHOOSE m \in DOMAIN revs : \A x \in DOMAIN revs : x <= m)

SeqToSet(s) == {s[i] : i \in 1..Len(s)}

\* all the revisions of the subtree of r, r included (nesting of the tree)
RECURSIVE Subtree(_, _)
Subtree(rv, r) ==
    {r} \cup UNION {Subtree(rv, c) : c \in SeqToSet(rv[r].children)}

TreeRevs == Subtree(revs, root)

\* the parent of r in the tree, EmptyRev for the root and for detached ones
ParentOf(rv, r) ==
    IF \E p \in DOMAIN rv : r \in SeqToSet(rv[p].children)
    THEN CHOOSE p \in DOMAIN rv : r \in SeqToSet(rv[p].children)
    ELSE EmptyRev

\* the path from the topmost ancestor of r down to r
RECURSIVE PathTo(_, _)
PathTo(rv, r) ==
    IF ParentOf(rv, r) = EmptyRev THEN <<r>>
    ELSE Append(PathTo(rv, ParentOf(rv, r)), r)

(***************************************************************************)
(* Sorting and hashing                                                     *)
(***************************************************************************)

\* String(uint32): the decimal digits of n
RECURSIVE Digits(_)
Digits(n) == IF n < 10 THEN <<n>> ELSE Append(Digits(n \div 10), n % 10)

\* the order StringArray::sort uses on strings of digits
RECURSIVE StrLE(_, _)
StrLE(a, b) ==
    IF a = <<>> THEN TRUE
    ELSE IF b = <<>> THEN FALSE
    ELSE IF a[1] # b[1] THEN a[1] < b[1]
    ELSE StrLE(Tail(a), Tail(b))

RECURSIVE InsertStr(_, _)
InsertStr(s, x) ==
    IF s = <<>> THEN <<x>>
    ELSE IF StrLE(x, s[1]) THEN <<x>> \o s
    ELSE <<s[1]>> \o InsertStr(Tail(s), x)

\* StringArray::sort
RECURSIVE SortStrings(_)
SortStrings(s) ==
    IF s = <<>> THEN <<>> ELSE InsertStr(SortStrings(Tail(s)), s[1])

\* StringArray::joinIntoString("")
RECURSIVE Join(_)
Join(s) == IF s = <<>> THEN <<>> ELSE s[1] \o Join(Tail(s))

\* a string hash: h = h * 31 + c over the characters, truncated
RECURSIVE HashFrom(_, _)
HashFrom(h, s) ==
    IF s = <<>> THEN h ELSE HashFrom((h * 31 + s[1] + 48) % HashMod, Tail(s))

CompileTimeHash(s) == HashFrom(0, s)

IdNum(t) == CHOOSE i \in 1..Len(IdOrder) : IdOrder[i] = t

KindNum(k) == CASE k = "Added" -> 1 [] k = "Removed" -> 2 [] OTHER -> 3

\* the serialized form of an item, as a string of digits
ItemString(it) == <<IdNum(it.target), KindNum(it.kind), it.payload>>

RECURSIVE SetToSeq(_)
SetToSeq(S) ==
    IF S = {} THEN <<>>
    ELSE LET x == CHOOSE y \in S : TRUE IN <<x>> \o SetToSeq(S \ {x})

\* the only element of a one-element set: {F(x) : x \in {e}} computes
\* the intermediate result e once
Only(S) == CHOOSE x \in S : TRUE

\* Revision::calculateHash with the hashes of the descendants at hand:
\* the revision's own items and the sorted hashes of its descendants
OwnHash(rv, r, hashes) ==
    CompileTimeHash(
        Join(SortStrings(SetToSeq({ItemString(it) : it \in rv[r].items})))
        \o Join(SortStrings(hashes)))

\* the hash strings of the descendants of r and of r, in child order
RECURSIVE DescendantHashes(_, _)
RECURSIVE ChildHashes(_, _)
ChildHashes(rv, cs) ==
    IF cs = <<>> THEN <<>>
    ELSE DescendantHashes(rv, cs[1]) \o ChildHashes(rv, Tail(cs))

DescendantHashes(rv, r) ==
    Only({Append(hashes, Digits(OwnHash(rv, r, hashes))) :
            hashes \in {ChildHashes(rv, rv[r].children)}})

\* Revision::calculateHash
RevisionHash(rv, r) == OwnHash(rv, r, ChildHashes(rv, rv[r].children))

\* recursiveGetHashes: the children's sums first, then the revision's own
RECURSIVE recursiveGetHashes(_, _)
RECURSIVE GetHashesOfChildren(_, _)
GetHashesOfChildren(rv, cs) ==
    IF cs = <<>> THEN <<>>
    ELSE recursiveGetHashes(rv, cs[1]) \o GetHashesOfChildren(rv, Tail(cs))

recursiveGetHashes(rv, r) ==
    Append(GetHashesOfChildren(rv, rv[r].children),
           Digits(RevisionHash(rv, r)))

\* a tree hash that joins the hashes in the order of the walk
calculateHashMut(rv, rt) ==
    Digits(CompileTimeHash(Join(recursiveGetHashes(rv, rt))))

\* VersionControl::calculateHash of the tree rooted at rt
calculateHash(rv, rt) ==
    Digits(CompileTimeHash(Join(SortStrings(recursiveGetHashes(rv, rt)))))

(***************************************************************************)
(* Pack                                                                    *)
(***************************************************************************)

\* Pack::store of the payloads of a set of items: new payloads become dirty
PackStore(pk, items) ==
    LET ps == {it.payload : it \in items} IN
    [stored |-> pk.stored \cup ps, dirty |-> pk.dirty \cup (ps \ pk.stored)]

\* Pack::flush: a successful flush leaves nothing dirty, a failed one
\* keeps the dirty set for the next flush
PackFlush(pk, ok) == IF ok THEN [pk EXCEPT !.dirty = {}] ELSE pk

(***************************************************************************)
(* Head                                                                    *)
(***************************************************************************)

EmptyIndex == [t \in TrackedIds |-> NoItem]

\* merging one revision's items into an index, last writer wins
MergeItems(index, items) ==
    [t \in TrackedIds |->
        IF \E it \in items : it.target = t
        THEN CHOOSE it \in items : it.target = t
        ELSE index[t]]

\* merging the revisions of a path into an index, in path order
RECURSIVE Replay(_, _, _)
Replay(rv, index, path) ==
    IF path = <<>> THEN index
    ELSE Replay(rv, MergeItems(index, rv[path[1]].items), Tail(path))

\* the length of the common prefix of two paths
RECURSIVE CommonLen(_, _)
CommonLen(p, q) ==
    IF p = <<>> \/ q = <<>> THEN 0
    ELSE IF p[1] # q[1] THEN 0
    ELSE 1 + CommonLen(Tail(p), Tail(q))

\* the targets of the items of the revisions of a path
Touched(rv, path) ==
    {it.target : it \in UNION {rv[path[i]].items : i \in 1..Len(path)}}

\* the index with the entries of the targets ts taken back to base
Unapply(index, base, ts) ==
    [t \in TrackedIds |-> IF t \in ts THEN base[t] ELSE index[t]]

\* the walk from the end of path from to the end of path to, which share
\* their first k revisions: the departing branch is unapplied, the
\* entering one applied
WalkAt(rv, index, from, to, k) ==
    Replay(rv,
           Only({Unapply(index, base, Touched(rv, SubSeq(from, k + 1, Len(from))))
                    : base \in {Replay(rv, EmptyIndex, SubSeq(from, 1, k))}}),
           SubSeq(to, k + 1, Len(to)))

\* a move onto the heading revision itself leaves and enters that
\* revision: VersionControl::quickAmendItem relies on it to take the
\* amended items into the index
Walk(rv, index, from, to) ==
    Only({WalkAt(rv, index, p[1], p[2],
                 IF p[1] = p[2] THEN Len(p[1]) - 1 ELSE CommonLen(p[1], p[2]))
            : p \in {<<from, to>>}})

\* Head::pointTo: rebinds the heading revision, the index becomes invalid
pointTo(h, r) == [h EXCEPT !.rev = r, !.valid = FALSE]

\* Head::moveTo: with a valid index, walks from the heading revision to r
\* through their common ancestor, unapplying the departing branch and
\* applying the entering one; with an invalid index, replays root to r
moveTo(rv, h, r) ==
    IF ~h.valid \/ h.rev \notin DOMAIN rv
    THEN [h EXCEPT !.rev = r, !.valid = TRUE,
                   !.index = Replay(rv, EmptyIndex, PathTo(rv, r))]
    ELSE [h EXCEPT !.rev = r, !.valid = TRUE,
                   !.index = Walk(rv, h.index, PathTo(rv, h.rev), PathTo(rv, r))]

\* the recorded state of an entity: Absent when never added or removed
Recorded(it) == IF it.kind \in {"Added", "Changed"} THEN it.payload ELSE Absent

\* the synthetic item for one entity whose live state differs from the index
DiffItem(index, lv, t) ==
    IF lv[t] = Absent THEN Item(t, "Removed", 0)
    ELSE IF Recorded(index[t]) = Absent THEN Item(t, "Added", lv[t])
    ELSE Item(t, "Changed", lv[t])

RECURSIVE DiffFrom(_, _, _)
DiffFrom(index, lv, i) ==
    IF i > Len(IdOrder) THEN <<>>
    ELSE (IF lv[IdOrder[i]] # Recorded(index[IdOrder[i]])
          THEN <<DiffItem(index, lv, IdOrder[i])>> ELSE <<>>)
         \o DiffFrom(index, lv, i + 1)

\* the items of the diff of the live document against the index
ComputeDiff(index, lv) == DiffFrom(index, lv, 1)

\* Head::getDiff: the cached diff, rebuilt when it is outdated
getDiff(h, lv) ==
    IF h.diffOutdated
    THEN [h EXCEPT !.diff = ComputeDiff(h.index, lv), !.diffOutdated = FALSE]
    ELSE h

\* a callback that leaves the cached diff in use
setDiffOutdatedMut(h, b) == h

\* Head::setDiffOutdated; an outdated diff is never read again, and the
\* model drops it
setDiffOutdated(h, b) ==
    [h EXCEPT !.diffOutdated = b, !.diff = IF b THEN <<>> ELSE @]

\* applying one item onto the live document
ApplyItem(lv, it) == [lv EXCEPT ![it.target] = Recorded(it)]

\* applying the index entries of the targets ts onto the live document
ApplyIndex(index, lv, ts) ==
    [t \in TrackedIds |->
        IF t \in ts /\ index[t] # NoItem THEN Recorded(index[t]) ELSE lv[t]]

\* Head::checkout: every item of the index onto the live document
HeadCheckout(h, lv) == ApplyIndex(h.index, lv, TrackedIds)

\* Head::cherryPick: the index items whose target is among ids
HeadCherryPick(h, lv, ids) == ApplyIndex(h.index, lv, ids)

\* Head::cherryPickAll
HeadCherryPickAll(h, lv) == ApplyIndex(h.index, lv, TrackedIds)

\* Head::resetChanges: the named entities back to their indexed state
HeadResetChanges(h, lv, items) ==
    [t \in TrackedIds |->
        IF \E it \in items : it.target = t THEN Recorded(h.index[t]) ELSE lv[t]]

\* Head::reset: the index and the cached diff are dropped
HeadReset(h) ==
    [h EXCEPT !.index = EmptyIndex, !.valid = FALSE,
              !.diff = <<>>, !.diffOutdated = TRUE]

(***************************************************************************)
(* StashesRepository                                                       *)
(***************************************************************************)

\* StashesRepository::hasQuickStash
StashesHasQuickStash(q) == q # EmptyRev

\* StashesRepository::storeQuickStash: rejected while the slot is occupied
storeQuickStash(q, r) == IF q = EmptyRev THEN r ELSE q

\* StashesRepository::getQuickStash: the items of the revision in the
\* slot, none when the slot is empty
QuickStashItems(rv, q) == IF q = EmptyRev THEN {} ELSE rv[q].items

\* StashesRepository::getUserStashWithName: the first stash filed under
\* the name, the empty revision when there is none
getUserStashWithName(rv, st, name) ==
    IF \E i \in 1..Len(st) : rv[st[i]].message = name
    THEN st[CHOOSE i \in 1..Len(st) :
                /\ rv[st[i]].message = name
                /\ \A j \in 1..(i - 1) : rv[st[j]].message # name]
    ELSE EmptyRev

\* StashesRepository::removeStash
removeStash(st, r) == SelectSeq(st, LAMBDA x : x # r)

\* the arena without the revisions gone, which nothing refers to any more
Release(rv, gone) == [x \in DOMAIN rv \ gone |-> rv[x]]

\* Head::mergeStateWith: the items of a revision onto the live document
mergeStateWith(lv, items) ==
    [t \in TrackedIds |->
        IF \E it \in items : it.target = t
        THEN Recorded(CHOOSE it \in items : it.target = t)
        ELSE lv[t]]

(***************************************************************************)
(* VersionControl                                                          *)
(***************************************************************************)

\* the selections the editor passes: sets of diff indices, out-of-range
\* and negative ones included
SelIndices == -1..Len(IdOrder)

Selections == {{}, {-1}, {0}, {0, 1, 2}, {0, Len(IdOrder)}}

\* Array::operator[]: the items at the selected indices that exist; an
\* index outside 0..size-1 yields a null pointer, which the caller skips
SelectedItems(items, sel) ==
    {items[i + 1] : i \in {j \in sel : 0 <= j /\ j < Len(items)}}

\* a lookup that hands back the revision it started from
getRevisionByIdMut(rv, startFrom, id) == startFrom

\* a lookup that looks no deeper than the children of startFrom
getRevisionByIdShallow(rv, startFrom, id) ==
    IF startFrom = id \/ id \in SeqToSet(rv[startFrom].children)
    THEN id
    ELSE EmptyRev

\* VersionControl::getRevisionById: depth-first from startFrom; the first
\* child whose search is not empty wins; a new empty revision otherwise
RECURSIVE getRevisionById(_, _, _)
RECURSIVE SearchChildren(_, _, _)
SearchChildren(rv, cs, id) ==
    IF cs = <<>> THEN EmptyRev
    ELSE LET search == getRevisionById(rv, cs[1], id) IN
         IF ~isEmpty(search) THEN search
         ELSE SearchChildren(rv, Tail(cs), id)

getRevisionById(rv, startFrom, id) ==
    IF startFrom = id THEN startFrom
    ELSE SearchChildren(rv, rv[startFrom].children, id)

\* a head move that rebinds the head and leaves the index alone
moveHeadMut(rv, h, r) ==
    IF ~isEmpty(r)
    THEN [head |-> pointTo(h, r), sent |-> 1]
    ELSE [head |-> h, sent |-> 0]

\* VersionControl::moveHead
moveHead(rv, h, r) ==
    IF ~isEmpty(r)
    THEN [head |-> moveTo(rv, h, r), sent |-> 1]
    ELSE [head |-> h, sent |-> 0]

\* a checkout that moves the head and leaves the document alone
CheckoutAtMut(h1, lv) == [head |-> h1, live |-> lv, sent |-> 1]

\* VersionControl::checkout with the head moved onto the revision: the
\* index is applied onto the document
CheckoutAt(h1, lv) == [head |-> h1, live |-> HeadCheckout(h1, lv), sent |-> 1]

\* a checkout that does not look at whether the revision is empty: for
\* the empty revision the head stays, the index goes onto the document
\* and the change message is sent
checkoutMut(rv, h, lv, r) ==
    IF ~isEmpty(r)
    THEN Only({CheckoutAt(h1, lv) : h1 \in {moveTo(rv, h, r)}})
    ELSE [head |-> h, live |-> HeadCheckout(h, lv), sent |-> 1]

\* VersionControl::checkout
checkout(rv, h, lv, r) ==
    IF ~isEmpty(r)
    THEN Only({CheckoutAt(h1, lv) : h1 \in {moveTo(rv, h, r)}})
    ELSE [head |-> h, live |-> lv, sent |-> 0]

\* VersionControl::cherryPick
\* a cherry-pick that leaves the head on the source revision
CherryPickAtMut(rv, h1, lv, ids, headRevision) ==
    [head |-> h1, live |-> HeadCherryPick(h1, lv, ids), sent |-> 1,
     seen |-> h1.rev]

\* the cherry-pick with the head moved onto the source revision: the
\* picked items are applied, the head moves back, and then the change
\* message is sent
CherryPickAt(rv, h1, lv, ids, headRevision) ==
    Only({[head |-> h2, live |-> HeadCherryPick(h1, lv, ids), sent |-> 1,
           seen |-> h2.rev] : h2 \in {moveTo(rv, h1, headRevision)}})

cherryPick(rv, h, lv, r, ids) ==
    IF ~isEmpty(r)
    THEN Only({CherryPickAt(rv, h1, lv, ids, h.rev) : h1 \in {moveTo(rv, h, r)}})
    ELSE [head |-> h, live |-> lv, sent |-> 0, seen |-> EmptyRev]

\* a commit that does not look at the size of the selection
commitRefusesEmptyMut(sel) == FALSE

\* VersionControl::commit, line 179: an empty selection is refused
commitRefusesEmpty(sel) == sel = {}

\* VersionControl::commit, line 187: an index at or past the end is refused
commitRefusesIndex(sel, n) == \E index \in sel : index >= n

\* a commit that attaches the new revision under the root
commitParentMut(h) == root

\* VersionControl::commit, line 194: the parent of the new revision
commitParent(h) == h.rev

\* VersionControl::hasQuickStash
hasQuickStash(q) == ~StashesHasQuickStash(q)

\* the arguments of a command: the revision or id, the id to append under, the selected indices,
\* the picked item ids, shouldKeepChanges or shouldKeepStash and the name
\* of a stash, where the command has them
NoArgs ==
    [rev |-> EmptyRev, id |-> 0, sel |-> {}, ids |-> {}, keep |-> FALSE,
     name |-> ""]

\* the record of the last command: its name, its arguments, the boolean
\* it returned (TRUE where it returns nothing), the revision it returned
\* (found), the change messages it sent (sendChangeMessage), the heading
\* revision at the moment cherryPick or applyStash sent theirs (seen), what
\* Pack::flush reported to commit (flushOk), the document as it was when
\* quickStashAll was called (before), and whether it was quiet: it left
\* every object and the document as they were
Op(name, arg, ret, sent, quiet) ==
    [op |-> name, arg |-> arg, ret |-> ret, found |-> EmptyRev,
     sent |-> sent, seen |-> EmptyRev, flushOk |-> TRUE,
     before |-> [t \in TrackedIds |-> Absent], quiet |-> quiet]

\* the document broadcasts a change whenever a tracked item is mutated
DocChanged(lv) == docPending \/ lv # live

\* a quiet command leaves the program where it was: what can follow it
\* is what could follow the command before it, and the model does not
\* explore it a second time
Awake == ~last.quiet

\* the message loop hands a pending document change to
\* changeListenerCallback before it runs the next editor command
Idle == Awake /\ ~docPending

Init ==
    /\ revs = (1 :> NewRevision("first commit"))
    /\ root = 1
    /\ head = moveTo(revs, [rev |-> EmptyRev, index |-> EmptyIndex,
                            valid |-> FALSE, diff |-> <<>>,
                            diffOutdated |-> TRUE], 1)
    /\ stashes = <<>>
    /\ quick = EmptyRev
    /\ pack = [stored |-> {}, dirty |-> {}]
    /\ live = [t \in TrackedIds |-> 1]
    /\ docPending = FALSE
    /\ last = Op("init", NoArgs, TRUE, 0, FALSE)

\* the user edits, adds or deletes a tracked item
Edit(t, v) ==
    /\ Awake
    /\ v # live[t]
    /\ live' = [live EXCEPT ![t] = v]
    /\ docPending' = TRUE
    /\ last' = Op("edit", NoArgs, TRUE, 0, FALSE)
    /\ UNCHANGED <<revs, root, head, stashes, quick, pack>>

\* VersionControl::changeListenerCallback: the project changed
ChangeListenerCallback ==
    /\ docPending
    /\ head' = setDiffOutdated(head, TRUE)
    /\ docPending' = FALSE
    /\ UNCHANGED <<revs, root, stashes, quick, pack, live, last>>

MoveHead(r) ==
    /\ Idle
    /\ \E res \in {moveHead(revs, head, r)} :
       /\ head' = res.head
       /\ last' = Op("moveHead", [NoArgs EXCEPT !.rev = r], TRUE, res.sent, res.head = head)
       /\ UNCHANGED <<revs, root, stashes, quick, pack, live, docPending>>

Checkout(r) ==
    /\ Idle
    /\ \E res \in {checkout(revs, head, live, r)} :
       /\ head' = res.head
       /\ live' = res.live
       /\ docPending' = DocChanged(res.live)
       /\ last' = Op("checkout", [NoArgs EXCEPT !.rev = r], TRUE, res.sent,
                    res.head = head /\ res.live = live)
       /\ UNCHANGED <<revs, root, stashes, quick, pack>>

CherryPick(r, ids) ==
    /\ Idle
    /\ \E res \in {cherryPick(revs, head, live, r, ids)} :
       /\ head' = res.head
       /\ live' = res.live
       /\ docPending' = DocChanged(res.live)
       /\ last' = [Op("cherryPick", [NoArgs EXCEPT !.rev = r, !.ids = ids],
                       TRUE, res.sent, res.head = head /\ res.live = live)
                        EXCEPT !.seen = res.seen]
       /\ UNCHANGED <<revs, root, stashes, quick, pack>>

\* a commit that takes the new revision out of the tree again when the
\* flush of the pack fails
treeAfterFlushMut(rv, rv1, ok) == IF ok THEN rv1 ELSE rv

\* VersionControl::commit, lines 197-201: what Pack::flush reports is not
\* looked at, the tree keeps the new revision
treeAfterFlush(rv, rv1, ok) == rv1

\* VersionControl::commit; ok is the outcome of Pack::flush
Commit(sel, msg, ok) ==
    /\ Idle
    /\ IF commitRefusesEmpty(sel)
       THEN /\ last' = Op("commit", [NoArgs EXCEPT !.sel = sel], FALSE, 0, TRUE)
            /\ UNCHANGED <<revs, root, head, stashes, quick, pack, live, docPending>>
       ELSE \E h1 \in {getDiff(head, live)} :
       IF commitRefusesIndex(sel, Len(h1.diff))
       THEN /\ head' = h1
            /\ last' = Op("commit", [NoArgs EXCEPT !.sel = sel], FALSE, 0, h1 = head)
            /\ UNCHANGED <<revs, root, stashes, quick, pack, live, docPending>>
       ELSE
       \E id \in {FreshId} : \E items \in {SelectedItems(h1.diff, sel)} :
       \E rv1 \in {(id :> RevisionFlush([NewRevision(msg) EXCEPT !.items = items]))
                    @@ [revs EXCEPT ![commitParent(h1)] = addChild(@, id)]} :
       /\ id <= MaxRevs
       /\ ok \/ PackStore(pack, items).dirty # {}
       /\ revs' = treeAfterFlush(revs, rv1, ok)
       /\ head' = moveTo(rv1, h1, id)
       /\ pack' = PackFlush(PackStore(pack, items), ok)
       /\ last' = [Op("commit", [NoArgs EXCEPT !.sel = sel], TRUE, 1, FALSE)
                    EXCEPT !.flushOk = ok]
       /\ UNCHANGED <<root, stashes, quick, live, docPending>>

\* the empty string as a revision id
NoId == 0

\* the revisions met walking down the children from a set of revisions,
\* in at most n steps
RECURSIVE Reach(_, _, _)
Reach(rv, S, n) ==
    IF n = 0 THEN S
    ELSE Reach(rv, S \cup UNION {SeqToSet(rv[p].children) : p \in S}, n - 1)

\* the revisions the root leads to, whatever the children links look like
Reachable(rv, rt) == Reach(rv, {rt}, Cardinality(DOMAIN rv))

\* the places a revision is attached at: a parent and a position among
\* that parent's children
Attachments(rv, rt, r) ==
    {<<p, i>> \in Reachable(rv, rt) \X (1..Cardinality(DOMAIN rv)) :
        i <= Len(rv[p].children) /\ rv[p].children[i] = r}

\* the revisions under the root form a tree: the root is attached
\* nowhere, every other revision at exactly one place
IsTree(rv, rt) ==
    \A r \in Reachable(rv, rt) :
        Cardinality(Attachments(rv, rt, r)) = IF r = rt THEN 0 ELSE 1

\* VersionControl::appendSubtree, line 117
appendTarget(rv, rt, appendRevisionId) ==
    getRevisionById(rv, rt, appendRevisionId)

\* VersionControl::appendSubtree: subtree is a revision of the arena, or
\* the id of a revision built elsewhere, which enters the arena
AppendSubtree(subtree, appendRevisionId) ==
    /\ Idle
    /\ \E args \in {[NoArgs EXCEPT !.rev = subtree, !.id = appendRevisionId]} :
       IF appendRevisionId = NoId
       THEN /\ last' = Op("appendSubtree", args, TRUE, 0, TRUE)
            /\ UNCHANGED <<revs, root, head, stashes, quick, pack, live, docPending>>
       ELSE \E headRevision \in {appendTarget(revs, root, appendRevisionId)} :
            IF isEmpty(headRevision)
            THEN /\ last' = Op("appendSubtree", args, TRUE, 0, TRUE)
                 /\ UNCHANGED <<revs, root, head, stashes, quick, pack, live,
                                docPending>>
            ELSE /\ subtree \notin DOMAIN revs => subtree <= MaxRevs
                 /\ revs' = [((subtree :> RevisionFlush(NewRevision("pulled")))
                                @@ revs)
                                EXCEPT ![headRevision] = addChild(@, subtree)]
                 /\ last' = Op("appendSubtree", args, TRUE, 1, FALSE)
                 /\ UNCHANGED <<root, head, stashes, quick, pack, live, docPending>>

\* an amended revision that takes the record in without looking for an
\* item of the same target
amendedRevisionMut(rev, it) == RevisionFlush([rev EXCEPT !.items = @ \cup {it}])

\* VersionControl::quickAmendItem, lines 135 and 137: the heading revision
\* with the record added, flushed
amendedRevision(rev, it) == RevisionFlush(addItem(rev, it))

\* an amended head that is left as it was
amendedHeadMut(rv, h) == h

\* VersionControl::quickAmendItem, line 136: the head moved onto the
\* heading revision
amendedHead(rv, h) == moveTo(rv, h, h.rev)

\* VersionControl::quickAmendItem of the tracked item t, which is in the
\* document; ok is the outcome of Pack::flush
QuickAmendItem(t, ok) ==
    /\ Idle
    /\ live[t] # Absent
    /\ \E revisionRecord \in {Item(t, "Added", live[t])} :
       \E rv1 \in {[revs EXCEPT ![head.rev] = amendedRevision(@, revisionRecord)]} :
       \E h1 \in {amendedHead(rv1, head)} :
       \E pk1 \in {PackFlush(PackStore(pack, {revisionRecord}), ok)} :
       /\ revs' = rv1
       /\ head' = h1
       /\ pack' = pk1
       /\ last' = Op("quickAmendItem", [NoArgs EXCEPT !.ids = {t}], TRUE, 1,
                     rv1 = revs /\ h1 = head /\ pk1 = pack)
       /\ UNCHANGED <<root, stashes, quick, live, docPending>>

\* VersionControl::resetChanges, called with the diff already cached
\* a reset that leaves the document as it is
resetChangesMut(h, lv, sel) == lv

\* VersionControl::resetChanges
resetChanges(h, lv, sel) ==
    IF sel = {} \/ (\E index \in sel : index >= Len(h.diff)) THEN lv
    ELSE HeadResetChanges(h, lv, SelectedItems(h.diff, sel))

\* VersionControl::resetAllChanges
resetAllChanges(h, lv) == HeadResetChanges(h, lv, SeqToSet(h.diff))

\* VersionControl::resetChanges as a command: it returns false for an
\* empty selection and for an index past the end of the diff, and sends
\* no change message
ResetChanges(sel) ==
    /\ Idle
    /\ \E args \in {[NoArgs EXCEPT !.sel = sel]} :
       IF sel = {}
       THEN /\ last' = Op("resetChanges", args, FALSE, 0, TRUE)
            /\ UNCHANGED <<revs, root, head, stashes, quick, pack, live, docPending>>
       ELSE \E h1 \in {getDiff(head, live)} :
       IF \E index \in sel : index >= Len(h1.diff)
       THEN /\ head' = h1
            /\ last' = Op("resetChanges", args, FALSE, 0, h1 = head)
            /\ UNCHANGED <<revs, root, stashes, quick, pack, live, docPending>>
       ELSE \E lv1 \in {resetChanges(h1, live, sel)} :
            /\ head' = h1
            /\ live' = lv1
            /\ docPending' = DocChanged(lv1)
            /\ last' = Op("resetChanges", args, TRUE, 0, h1 = head /\ lv1 = live)
            /\ UNCHANGED <<revs, root, stashes, quick, pack>>

\* VersionControl::resetAllChanges as a command
ResetAllChanges ==
    /\ Idle
    /\ \E h1 \in {getDiff(head, live)} :
       \E lv1 \in {resetAllChanges(h1, live)} :
       /\ head' = h1
       /\ live' = lv1
       /\ docPending' = DocChanged(lv1)
       /\ last' = Op("resetAllChanges", NoArgs, TRUE, 0, h1 = head /\ lv1 = live)
       /\ UNCHANGED <<revs, root, stashes, quick, pack>>

\* the arguments of a call of stash
StashArgs(sel, shouldKeepChanges) ==
    [NoArgs EXCEPT !.sel = sel, !.keep = shouldKeepChanges]

\* VersionControl::stash; the selections passed hold no negative index
Stash(sel, msg, shouldKeepChanges) ==
    /\ Idle
    /\ IF sel = {}
       THEN /\ last' = Op("stash", StashArgs(sel, shouldKeepChanges), FALSE, 0, TRUE)
            /\ UNCHANGED <<revs, root, head, stashes, quick, pack, live, docPending>>
       ELSE \E h1 \in {getDiff(head, live)} :
       IF \E index \in sel : index >= Len(h1.diff)
       THEN /\ head' = h1
            /\ last' = Op("stash", StashArgs(sel, shouldKeepChanges), FALSE, 0, h1 = head)
            /\ UNCHANGED <<revs, root, stashes, quick, pack, live, docPending>>
       ELSE
       \E id \in {FreshId} :
       \E lv1 \in {IF ~shouldKeepChanges THEN resetChanges(h1, live, sel)
                   ELSE live} :
       /\ \A index \in sel : index >= 0
       /\ id <= MaxRevs
       /\ revs' = (id :> [NewRevision(msg) EXCEPT
                            !.items = SelectedItems(h1.diff, sel)]) @@ revs
       /\ stashes' = Append(stashes, id)
       /\ head' = h1
       /\ live' = lv1
       /\ docPending' = DocChanged(lv1)
       /\ last' = Op("stash", StashArgs(sel, shouldKeepChanges), TRUE, 1, FALSE)
       /\ UNCHANGED <<root, quick, pack>>

\* VersionControl::quickStashAll
QuickStashAll ==
    /\ Idle
    /\ IF hasQuickStash(quick)
       THEN /\ last' = Op("quickStashAll", NoArgs, FALSE, 0, TRUE)
            /\ UNCHANGED <<revs, root, head, stashes, quick, pack, live, docPending>>
       ELSE \E h1 \in {getDiff(head, live)} :
       \E id \in {FreshId} : \E stored \in {storeQuickStash(quick, FreshId)} :
       \E lv1 \in {resetAllChanges(h1, live)} :
       /\ stored = id => id <= MaxRevs
       /\ revs' = IF stored = id
                  THEN (id :> [NewRevision("") EXCEPT
                                    !.items = SeqToSet(h1.diff)]) @@ revs
                  ELSE revs
       /\ quick' = stored
       /\ head' = h1
       /\ live' = lv1
       /\ docPending' = DocChanged(lv1)
       /\ last' = [Op("quickStashAll", NoArgs, TRUE, 1, FALSE)
                       EXCEPT !.before = live]
       /\ UNCHANGED <<root, stashes, pack>>

\* a stash applied with the head left on the stash
applyStashAtMut(rv, h1, lv, headRevision) ==
    [head |-> h1, live |-> HeadCherryPickAll(h1, lv), seen |-> h1.rev]

\* a stash applied with the change message sent while the head is still
\* on the stash
applyStashAtEarly(rv, h1, lv, headRevision) ==
    [head |-> moveTo(rv, h1, headRevision), live |-> HeadCherryPickAll(h1, lv),
     seen |-> h1.rev]

\* VersionControl::applyStash, lines 244-252, with the head moved onto the
\* stash: everything is picked, the head moves back, and then the change
\* message is sent
applyStashAt(rv, h1, lv, headRevision) ==
    Only({[head |-> h2, live |-> HeadCherryPickAll(h1, lv), seen |-> h2.rev]
            : h2 \in {moveTo(rv, h1, headRevision)}})

\* a stash that stays filed whatever shouldKeepStash says
stashesAfterApplyMut(st, stash, shouldKeepStash) == st

\* VersionControl::applyStash, lines 247-250
stashesAfterApply(st, stash, shouldKeepStash) ==
    IF ~shouldKeepStash THEN removeStash(st, stash) ELSE st

\* VersionControl::applyStash(stash, shouldKeepStash); name is the name
\* the stash was asked for by, if any
ApplyStash(stash, shouldKeepStash, name) ==
    /\ Idle
    /\ \E args \in {[NoArgs EXCEPT !.rev = stash, !.keep = shouldKeepStash,
                                   !.name = name]} :
       IF isEmpty(stash)
       THEN /\ last' = Op("applyStash", args, FALSE, 0, TRUE)
            /\ UNCHANGED <<revs, root, head, stashes, quick, pack, live, docPending>>
       ELSE \E res \in {applyStashAt(revs, moveTo(revs, head, stash), live, head.rev)} :
            \E st1 \in {stashesAfterApply(stashes, stash, shouldKeepStash)} :
            /\ head' = res.head
            /\ live' = res.live
            /\ docPending' = DocChanged(res.live)
            /\ stashes' = st1
            /\ revs' = Release(revs, SeqToSet(stashes) \ SeqToSet(st1))
            /\ last' = [Op("applyStash", args, TRUE, 1,
                           res.head = head /\ res.live = live /\ st1 = stashes)
                            EXCEPT !.seen = res.seen]
            /\ UNCHANGED <<root, quick, pack>>

\* VersionControl::applyStash(stashId, shouldKeepStash)
ApplyStashWithName(stashId, shouldKeepStash) ==
    ApplyStash(getUserStashWithName(revs, stashes, stashId), shouldKeepStash,
               stashId)

\* VersionControl::applyQuickStash: a copy of the head merges the quick
\* stash into the document and picks everything; the slot is cleared
ApplyQuickStash ==
    /\ Idle
    /\ IF ~hasQuickStash(quick)
       THEN /\ last' = Op("applyQuickStash", NoArgs, FALSE, 0, TRUE)
            /\ UNCHANGED <<revs, root, head, stashes, quick, pack, live, docPending>>
       ELSE \E tempHead \in {head} :
            \E lv1 \in {HeadCherryPickAll(tempHead,
                            mergeStateWith(live, QuickStashItems(revs, quick)))} :
            /\ live' = lv1
            /\ docPending' = DocChanged(lv1)
            /\ quick' = EmptyRev
            /\ revs' = Release(revs, {quick} \ {EmptyRev})
            /\ last' = Op("applyQuickStash", NoArgs, TRUE, 1,
                          lv1 = live /\ quick = EmptyRev)
            /\ UNCHANGED <<root, head, stashes, pack>>

(***************************************************************************)
(* Serialization                                                           *)
(***************************************************************************)

\* Revision::serialize: id, message, the item list and the nested
\* children; the payloads of a flushed revision are those the pack holds
RECURSIVE SerializeRevision(_, _)
SerializeRevision(rv, r) ==
    [id |-> r, message |-> rv[r].message, items |-> SetToSeq(rv[r].items),
     flushed |-> rv[r].flushed,
     children |-> [i \in 1..Len(rv[r].children) |->
                        SerializeRevision(rv, rv[r].children[i])]]

\* Revision::deserialize: the revisions of a node, by id
RECURSIVE DeserializeRevision(_)
RECURSIVE DeserializeChildren(_)
DeserializeChildren(nodes) ==
    IF nodes = <<>> THEN << >>
    ELSE DeserializeRevision(nodes[1]) @@ DeserializeChildren(Tail(nodes))

DeserializeRevision(node) ==
    (node.id :> [message |-> node.message, items |-> SeqToSet(node.items),
                 children |-> [i \in 1..Len(node.children) |->
                                    node.children[i].id],
                 flushed |-> node.flushed])
    @@ DeserializeChildren(node.children)

\* a serialization that stores the id of the root as the heading id
serializeMut(rv, rt, h, st, q, pk) ==
    [headRevisionId |-> rt,
     tree    |-> SerializeRevision(rv, rt),
     stashes |-> [i \in 1..Len(st) |-> SerializeRevision(rv, st[i])],
     quick   |-> IF q = EmptyRev THEN <<>> ELSE <<SerializeRevision(rv, q)>>,
     pack    |-> pk.stored,
     index   |-> h.index]

\* VersionControl::serialize
serialize(rv, rt, h, st, q, pk) ==
    [headRevisionId |-> h.rev,
     tree    |-> SerializeRevision(rv, rt),
     stashes |-> [i \in 1..Len(st) |-> SerializeRevision(rv, st[i])],
     quick   |-> IF q = EmptyRev THEN <<>> ELSE <<SerializeRevision(rv, q)>>,
     pack    |-> pk.stored,
     index   |-> h.index]

\* a load that moves the head onto the stored heading revision, replaying
\* the index
deserializeHeadMut(rv, rt, h, doc) ==
    LET h1 == [HeadReset(h) EXCEPT !.index = doc.index]
        headRevision == getRevisionById(rv, rt, doc.headRevisionId)
    IN IF ~isEmpty(headRevision) THEN moveTo(rv, pointTo(h1, headRevision), headRevision)
       ELSE h1

\* VersionControl::deserialize, the head: reset, Head::deserialize, then
\* pointTo when the stored heading id names a revision of the loaded tree
deserializeHead(rv, rt, h, doc) ==
    LET h1 == [HeadReset(h) EXCEPT !.index = doc.index]
        headRevision == getRevisionById(rv, rt, doc.headRevisionId)
    IN IF ~isEmpty(headRevision) THEN pointTo(h1, headRevision) ELSE h1

\* the revisions of the tree before a load that the head h keeps alive
\* after it, when the load has not pointed it at a revision of the loaded
\* tree: the head holds a counted reference
StillHeld(rv, h, tree) ==
    [x \in (IF h.rev \in DOMAIN tree THEN {} ELSE Subtree(rv, h.rev)) |-> rv[x]]

\* VersionControl::deserialize of a valid document
Deserialize(doc, name) ==
    /\ Idle
    /\ \E tree \in {DeserializeRevision(doc.tree)} :
       \E h1 \in {deserializeHead(tree, doc.tree.id, head, doc)} :
       /\ root' = doc.tree.id
       /\ revs' = tree @@ DeserializeChildren(doc.stashes)
                       @@ DeserializeChildren(doc.quick)
                       @@ StillHeld(revs, h1, tree)
       /\ stashes' = [i \in 1..Len(doc.stashes) |-> doc.stashes[i].id]
       /\ quick' = IF doc.quick = <<>> THEN EmptyRev ELSE doc.quick[1].id
       /\ pack' = [stored |-> doc.pack, dirty |-> {}]
       /\ head' = h1
       /\ last' = Op(name, NoArgs, TRUE, 0,
                     <<root', revs', stashes', quick', pack', head'>>
                       = <<root, revs, stashes, quick, pack, head>>)
       /\ UNCHANGED <<live, docPending>>

\* serialize() followed by deserialize() of the result
Reload ==
    \E doc \in {serialize(revs, root, head, stashes, quick, pack)} :
        Deserialize(doc, "reload")

\* a project file written with a quick stash in it
DocQuick ==
    [headRevisionId |-> 1,
     tree    |-> [id |-> 1, message |-> "first commit", items |-> <<>>,
                  flushed |-> FALSE, children |-> <<>>],
     stashes |-> <<>>,
     quick   |-> <<[id |-> 2, message |-> "", items |-> <<Item("A", "Added", 2)>>,
                    flushed |-> FALSE, children |-> <<>>]>>,
     pack    |-> {2},
     index   |-> EmptyIndex]

ForeignDocs == {DocQuick}

Load(doc) == Deserialize(doc, "load")

\* a project file whose heading id names no revision of its tree
DocLost ==
    [headRevisionId |-> MaxRevs + 1,
     tree    |-> [id |-> 1, message |-> "first commit", items |-> <<>>,
                  flushed |-> FALSE, children |-> <<>>],
     stashes |-> <<>>,
     quick   |-> <<>>,
     pack    |-> {},
     index   |-> EmptyIndex]

\* Revision::reset
RevisionReset(rev) == [rev EXCEPT !.items = {}, !.children = <<>>]

\* VersionControl::reset, the revisions: the root is cleared, and what the
\* head still refers to stays alive
resetRevisions(rv, rt, h) ==
    [x \in {rt} \cup (IF h.rev = rt THEN {} ELSE Subtree(rv, h.rev)) |->
        IF x = rt THEN RevisionReset(rv[rt]) ELSE rv[x]]

\* VersionControl::deserialize of a document that has no version control
\* node: reset(), and nothing else
DeserializeNoNode ==
    /\ Idle
    /\ revs' = resetRevisions(revs, root, head)
    /\ head' = HeadReset(head)
    /\ stashes' = <<>>
    /\ quick' = EmptyRev
    /\ pack' = [stored |-> {}, dirty |-> {}]
    /\ last' = Op("deserialize", NoArgs, TRUE, 0,
                  <<revs', stashes', quick', pack', head'>>
                    = <<revs, stashes, quick, pack, head>>)
    /\ UNCHANGED <<root, live, docPending>>

\* a lookup of a revision by id
Lookup(id) ==
    /\ Idle
    /\ last' = [Op("getRevisionById", [NoArgs EXCEPT !.rev = id], TRUE, 0, TRUE)
                    EXCEPT !.found = getRevisionById(revs, root, id)]
    /\ UNCHANGED <<revs, root, head, stashes, quick, pack, live, docPending>>

PickSets == {{}, {"A"}, {"B", "C"}}

\* the revisions the editor holds: those of the tree, and the empty one
\* a failed lookup gave it
Held == TreeRevs \cup {EmptyRev}

EditStep == \E t \in Editable : \E v \in Vals(t) : Edit(t, v)

CommitStep ==
    \E sel \in Selections : \E msg \in Messages : Commit(sel, msg, TRUE)

\* a commit whose flush of the pack succeeds or fails
CommitFlushStep ==
    \E sel \in Selections : \E msg \in Messages : \E ok \in BOOLEAN :
        Commit(sel, msg, ok)

MoveHeadStep == \E r \in Held : MoveHead(r)

CheckoutStep == \E r \in Held : Checkout(r)

CherryPickStep == \E r \in Held : \E ids \in PickSets : CherryPick(r, ids)

\* the selections stash is called with: none of the diff, its first
\* item, and one with an index past the end of any diff
StashSelections == {{}, {0}, {0, Len(IdOrder)}}

StashStep ==
    \E sel \in StashSelections : \E msg \in Messages : \E keep \in BOOLEAN :
        Stash(sel, msg, keep)

\* the selections resetChanges is called with: none of the diff, its
\* first item, its second and third, one with a negative index and one
\* with an index past the end of any diff
ResetSelections == {{}, {0}, {1, 2}, {-1, 0}, {0, Len(IdOrder)}}

ResetChangesStep == \E sel \in ResetSelections : ResetChanges(sel)

\* the tracked items quickAmendItem is called with
AmendIds == {"A"}

\* the names a stash is asked for by: one that stashes carry, one that
\* none does
StashNames == Messages \cup {"none"}

ApplyStashStep ==
    \/ \E stash \in SeqToSet(stashes) \cup {EmptyRev} : \E keep \in BOOLEAN :
            ApplyStash(stash, keep, "")
    \/ \E stashId \in StashNames : \E keep \in BOOLEAN :
            ApplyStashWithName(stashId, keep)

\* appendSubtree is given a revision of the tree or one built elsewhere,
\* and the empty id, the id of a revision or an id no revision has
AppendSubtreeStep ==
    \E subtree \in TreeRevs \cup {FreshId} :
    \E appendRevisionId \in {NoId} \cup TreeRevs \cup {MaxRevs + 1} :
        AppendSubtree(subtree, appendRevisionId)

QuickAmendStep == \E t \in AmendIds : QuickAmendItem(t, TRUE)

LoadStep == \E doc \in ForeignDocs : Load(doc)

LoadLostStep == Load(DocLost)

LookupStep == \E id \in 0..(MaxRevs + 1) : Lookup(id)

\* committing, moving the head and loading documents that leave the head
\* where it was
NextLoad ==
    \/ EditStep
    \/ ChangeListenerCallback
    \/ CommitStep
    \/ MoveHeadStep
    \/ LoadLostStep
    \/ DeserializeNoNode

SpecLoad == Init /\ [][NextLoad]_vars

\* committing, moving the head, checking out and cherry-picking
Next ==
    \/ EditStep
    \/ ChangeListenerCallback
    \/ CommitStep
    \/ MoveHeadStep
    \/ CheckoutStep
    \/ CherryPickStep

Spec == Init /\ [][Next]_vars

\* the history built by commits and head moves, and the queries on it
NextQuery ==
    \/ EditStep
    \/ ChangeListenerCallback
    \/ CommitStep
    \/ MoveHeadStep
    \/ LookupStep

SpecQuery == Init /\ [][NextQuery]_vars

\* stashes, and the repository written and read back
NextStash ==
    \/ EditStep
    \/ ChangeListenerCallback
    \/ CommitStep
    \/ MoveHeadStep
    \/ CheckoutStep
    \/ StashStep
    \/ Reload

SpecStash == Init /\ [][NextStash]_vars

\* the quick stash, on a new project and on a project read from a document
NextQuick ==
    \/ EditStep
    \/ ChangeListenerCallback
    \/ CommitStep
    \/ QuickStashAll
    \/ LoadStep

SpecQuick == Init /\ [][NextQuick]_vars

\* committing and moving the head: the trees the program builds
NextTree ==
    \/ EditStep
    \/ ChangeListenerCallback
    \/ CommitStep
    \/ MoveHeadStep

SpecTree == Init /\ [][NextTree]_vars

\* stashes filed and applied, on a new project and on a project read
\* from a document
NextShelf ==
    \/ EditStep
    \/ ChangeListenerCallback
    \/ CommitStep
    \/ StashStep
    \/ ApplyStashStep
    \/ QuickStashAll
    \/ ApplyQuickStash
    \/ LoadStep

SpecShelf == Init /\ [][NextShelf]_vars

\* subtrees appended to the history; the walks of a history that is no
\* tree any more need not end, and the commands that follow are left out
NextAppend ==
    \/ IsTree(revs, root) /\ EditStep
    \/ IsTree(revs, root) /\ ChangeListenerCallback
    \/ IsTree(revs, root) /\ CommitStep
    \/ IsTree(revs, root) /\ StashStep
    \/ IsTree(revs, root) /\ ApplyStashStep
    \/ IsTree(revs, root) /\ AppendSubtreeStep

SpecAppend == Init /\ [][NextAppend]_vars

\* commits whose flush of the pack can fail
NextFlush ==
    \/ EditStep
    \/ ChangeListenerCallback
    \/ CommitFlushStep
    \/ MoveHeadStep

SpecFlush == Init /\ [][NextFlush]_vars

\* uncommitted changes discarded
NextReset ==
    \/ EditStep
    \/ ChangeListenerCallback
    \/ CommitStep
    \/ MoveHeadStep
    \/ ResetChangesStep
    \/ ResetAllChanges

SpecReset == Init /\ [][NextReset]_vars

\* items picked from revisions and from stashes
NextPick ==
    \/ EditStep
    \/ ChangeListenerCallback
    \/ CommitStep
    \/ CherryPickStep
    \/ StashStep
    \/ ApplyStashStep

SpecPick == Init /\ [][NextPick]_vars

\* every command that moves the head or rewrites the heading revision
NextIndex ==
    \/ EditStep
    \/ ChangeListenerCallback
    \/ CommitStep
    \/ MoveHeadStep
    \/ CheckoutStep
    \/ CherryPickStep
    \/ StashStep
    \/ ApplyStashStep
    \/ QuickAmendStep

SpecIndex == Init /\ [][NextIndex]_vars

\* amending the heading revision, with revisions in the tree, in the
\* stash list and in the quick slot
NextAmend ==
    \/ EditStep
    \/ ChangeListenerCallback
    \/ CommitStep
    \/ QuickAmendStep
    \/ StashStep
    \/ LoadStep

SpecAmend == Init /\ [][NextAmend]_vars

(***************************************************************************)
(* Properties                                                              *)
(***************************************************************************)

\* the items of a diff at the indices of a selection that exist
AtIndices(d, sel) == {d[i + 1] : i \in {j \in sel : j >= 0 /\ j < Len(d)}}

\* C1: a commit with an empty selection returns false, sends no change
\* message and leaves the tree, the head and the pack as they were
C1_EmptyCommitRefused ==
    [][(last'.op = "commit" /\ last'.arg.sel = {})
        => /\ last'.ret = FALSE
           /\ last'.sent = 0
           /\ UNCHANGED <<revs, root, head, pack>>]_vars

\* an empty commit was refused with uncommitted changes at hand
C1_Witness ==
    /\ last.op = "commit" /\ last.arg.sel = {} /\ last.ret = FALSE
    /\ ComputeDiff(head.index, live) # <<>>
    /\ Cardinality(TreeRevs) > 1

\* C2: a commit whose selection holds an index outside 0 .. size of the
\* diff - 1, negative ones included, returns false, adds no revision,
\* leaves the heading revision and the index alone and sends nothing
C2_OutOfRangeRefused ==
    [][(/\ last'.op = "commit"
        /\ \E i \in last'.arg.sel : i < 0 \/ i >= Len(getDiff(head, live).diff))
        => /\ last'.ret = FALSE
           /\ last'.sent = 0
           /\ revs' = revs
           /\ head'.rev = head.rev
           /\ head'.index = head.index]_vars

\* C3: a commit that returns true adds exactly one revision to the tree,
\* as a child of the revision the head was on, holding exactly the items
\* of the diff at the selected indices; the head is on it afterwards and
\* one change message was sent
C3_CommitAddsOneChild ==
    [][(last'.op = "commit" /\ last'.ret = TRUE)
        => /\ last'.sent = 1
           /\ root' = root
           /\ \E n \in DOMAIN revs' \ DOMAIN revs :
                /\ Subtree(revs', root') = Subtree(revs, root) \cup {n}
                /\ ParentOf(revs', n) = head.rev
                /\ revs'[n].items =
                        AtIndices(getDiff(head, live).diff, last'.arg.sel)
                /\ revs'[n].children = <<>>
                /\ head'.rev = n
                /\ \A r \in DOMAIN revs :
                        /\ revs'[r].items = revs[r].items
                        /\ r # head.rev => revs'[r] = revs[r]]_vars

\* a commit of some items succeeded on a revision that is not the root
C3_Witness ==
    /\ last.op = "commit" /\ last.ret = TRUE
    /\ revs[head.rev].items # {}
    /\ ParentOf(revs, head.rev) \notin {EmptyRev, root}

\* C4 as stated: whatever the revision, a cherry-pick leaves the heading
\* revision where it was and sends exactly one change message
C4_Original ==
    [][last'.op = "cherryPick"
        => (head'.rev = head.rev /\ last'.sent = 1)]_vars

\* C4, amended: a cherry-pick leaves the heading revision where it was;
\* it sends exactly one change message when the revision is not empty,
\* and none when it is
C4_CherryPickKeepsHead ==
    [][last'.op = "cherryPick"
        => /\ head'.rev = head.rev
           /\ last'.sent = IF isEmpty(last'.arg.rev) THEN 0 ELSE 1]_vars

\* items were picked from a revision the head is not on
C4_Witness ==
    /\ last.op = "cherryPick" /\ last.sent = 1
    /\ last.arg.rev # head.rev
    /\ last.arg.ids # {}
    /\ revs[last.arg.rev].items # {}

\* the state the revision r records for the target t
StateAt(r, t) == Only({it.payload : it \in {i \in revs[r].items : i.target = t}})

\* the revision r is a commit "initial" adding A, B and C, and e is a
\* commit "edit" on it changing A
Scenario(r, e) ==
    /\ ParentOf(revs, r) = root
    /\ {<<it.target, it.kind>> : it \in revs[r].items}
            = {<<"A", "Added">>, <<"B", "Added">>, <<"C", "Added">>}
    /\ Cardinality(revs[r].items) = 3
    /\ ParentOf(revs, e) = r
    /\ {<<it.target, it.kind>> : it \in revs[e].items} = {<<"A", "Changed">>}
    /\ Cardinality(revs[e].items) = 1
    /\ revs[root].items = {}

\* the document with A in the state a and B, C as "initial" records them
Document(r, a) ==
    [t \in TrackedIds |-> IF t = "A" THEN a ELSE StateAt(r, t)]

\* C5: with "initial" adding A, B, C and "edit" changing A, checkout of
\* "initial" sets A (and B, C) to the states recorded there; a cherry-pick
\* of {A} from "edit" with the head on "initial" then sets A to its state
\* as of "edit", leaves B and C alone and leaves the head on "initial"
C5_CheckoutThenCherryPick ==
    [][\A r, e \in DOMAIN revs :
        (last'.op \in {"checkout", "cherryPick"} /\ Scenario(r, e)) =>
            /\ (last'.op = "checkout" /\ last'.arg.rev = r)
                => /\ live' = Document(r, StateAt(r, "A"))
                   /\ head'.rev = r
            /\ (/\ head.rev = r
                /\ live["B"] = StateAt(r, "B") /\ live["C"] = StateAt(r, "C")
                /\ last'.op = "cherryPick"
                /\ last'.arg.rev = e /\ last'.arg.ids = {"A"})
                => /\ live' = Document(r, StateAt(e, "A"))
                   /\ head'.rev = r]_vars

\* the scenario has run: A was picked from "edit" with the head on
\* "initial", and A differs from its state at "initial"
C5_Witness ==
    \E r, e \in DOMAIN revs :
        /\ Scenario(r, e)
        /\ StateAt(e, "A") # StateAt(r, "A")
        /\ last.op = "cherryPick" /\ last.arg.rev = e /\ last.arg.ids = {"A"}
        /\ head.rev = r
        /\ live = Document(r, StateAt(e, "A"))

\* C6: when a quickStashAll has succeeded, a second one right after it
\* returns false, hasQuickStash reports true before and after it, the
\* quick stash is not replaced and the changes of the document stay
C6_SecondQuickStashRefused ==
    [][(/\ last.op = "quickStashAll" /\ last.ret = TRUE
        /\ last'.op = "quickStashAll")
        => /\ last'.ret = FALSE
           /\ hasQuickStash(quick)
           /\ hasQuickStash(quick')
           /\ quick' = quick
           /\ revs' = revs
           /\ live' = live]_vars

ChildOrders(cs) ==
    {p \in [1..Len(cs) -> SeqToSet(cs)] : SeqToSet(p) = SeqToSet(cs)}

\* the tree rv with the children of r in the order p
Reordered(rv, r, p) == [rv EXCEPT ![r].children = p]

\* the hash of the tree rv rooted at rt, and the hash of each of its
\* revisions, is the same whatever the order of the children of a revision
HashIgnoresChildOrder(rv, rt) ==
    \A r \in {x \in Subtree(rv, rt) : Len(rv[x].children) >= 2} :
    \E whole \in {calculateHash(rv, rt)} :
    \E each \in {[x \in Subtree(rv, rt) |-> RevisionHash(rv, x)]} :
    \A p \in ChildOrders(rv[r].children) \ {rv[r].children} :
        /\ calculateHash(Reordered(rv, r, p), rt) = whole
        /\ \A x \in Subtree(rv, rt) :
                RevisionHash(Reordered(rv, r, p), x) = each[x]

\* C8: the hash of every revision, and the hash of the whole tree, is the
\* same for trees that differ only in the order in which the children of
\* some revision were inserted; checked on every tree the program builds,
\* at the step that builds it
C8_HashIgnoresChildOrder ==
    [][revs' # revs => HashIgnoresChildOrder(revs', root')]_vars

\* some revision has children whose order shows in the walk of the tree
C8_Witness ==
    \E r \in TreeRevs : \E p \in ChildOrders(revs[r].children) :
        recursiveGetHashes(Reordered(revs, r, p), root)
            # recursiveGetHashes(revs, root)

\* C9: a lookup from the root of an id that no revision of the tree has
\* returns the empty revision and leaves the tree as it was
C9_UnknownIdGivesEmpty ==
    [][(last'.op = "getRevisionById" /\ last'.arg.rev \notin Subtree(revs, root))
        => /\ isEmpty(last'.found)
           /\ revs' = revs
           /\ root' = root]_vars

\* an unknown id was looked up in a tree of several revisions
C9_Witness ==
    /\ last.op = "getRevisionById"
    /\ last.arg.rev \notin TreeRevs
    /\ isEmpty(last.found)
    /\ Cardinality(TreeRevs) >= 3

\* the index after moving the head h onto x, onto the root and onto x
ThereAndBack(h, x) ==
    moveHead(revs, moveHead(revs, moveHead(revs, h, x).head, root).head, x).head.index

\* C10: for every revision X of the tree, moving the head onto X, onto
\* the root and onto X again gives the index that one move onto X gives
\* from a head whose index is not built
C10_MoveToPathIndependent ==
    \A x \in TreeRevs : \E index \in {ThereAndBack(head, x)} :
        /\ index = moveHead(revs, HeadReset(head), x).head.index
        /\ index = moveHead(revs, pointTo(head, head.rev), x).head.index

\* the head was moved, and some revision on another branch has an index
\* that differs from the one of the head and from the one of the root
C10_Witness ==
    /\ last.op = "moveHead"
    /\ \E x \in TreeRevs :
        /\ x \notin SeqToSet(PathTo(revs, head.rev))
        /\ head.rev \notin SeqToSet(PathTo(revs, x))
        /\ ThereAndBack(head, x) # head.index
        /\ head.index # EmptyIndex

\* the step is the run of one of the commands named: a command runs when
\* no document change is pending, and leaves its name in last
Ran(names) == ~docPending /\ last'.op \in names

\* the item recorded last for a target along a path, none when no
\* revision of the path holds one
RECURSIVE LastOnPath(_, _, _)
LastOnPath(rv, path, t) ==
    IF path = <<>> THEN NoItem
    ELSE IF \E it \in rv[path[Len(path)]].items : it.target = t
         THEN CHOOSE it \in rv[path[Len(path)]].items : it.target = t
         ELSE LastOnPath(rv, SubSeq(path, 1, Len(path) - 1), t)

\* C11: whenever the index of the head is valid it is the last-writer-wins
\* merge of the items along the path from the root to the heading
\* revision, and it holds no other entry
C11_IndexIsMergeOfPath ==
    head.valid =>
        \A t \in TrackedIds :
            head.index[t] = LastOnPath(revs, PathTo(revs, head.rev), t)

\* a stash has been applied with the head on a committed revision that
\* was amended since: the index holds the amended item
C11_Witness ==
    /\ last.op = "applyStash"
    /\ last.ret
    /\ head.valid
    /\ head.rev # root
    /\ revs[head.rev].items = {Item("A", "Added", 2)}
    /\ pack.stored = {1, 2}
    /\ head.index["A"] = Item("A", "Added", 2)

\* C12: the revision tree stays acyclic and every revision id occurs at
\* most once in it, also after appendSubtree is given a subtree that is,
\* or holds, a revision already in the tree
C12_TreeStaysATree == IsTree(revs, root)

\* C13: moveHead and checkout of an empty revision are no-ops: the head,
\* the index, the document and the tree stay as they were and no change
\* message is sent; of a non-empty revision r both make r the heading
\* revision, and checkout also overwrites the live state of every entity
\* in the index with its indexed state at r
C13_EmptyRevisionIsNoOp ==
    [][Ran({"moveHead", "checkout"}) =>
          IF isEmpty(last'.arg.rev)
          THEN /\ head' = head /\ live' = live
               /\ revs' = revs /\ root' = root
               /\ last'.sent = 0
          ELSE /\ head'.rev = last'.arg.rev
               /\ last'.op = "checkout" =>
                    \A t \in TrackedIds :
                        LastOnPath(revs, PathTo(revs, last'.arg.rev), t) # NoItem
                        => live'[t] = Recorded(LastOnPath(revs,
                                          PathTo(revs, last'.arg.rev), t))]_vars

\* a checkout of a committed revision has rewritten the document
C13_Witness ==
    /\ last.op = "checkout"
    /\ ~isEmpty(last.arg.rev)
    /\ head.rev = last.arg.rev
    /\ head.rev # root
    /\ docPending

\* the stashes filed under a name
StashesNamed(name) ==
    {r \in SeqToSet(stashes) : revs[r].message = name}

\* C14: applyStash of a non-empty stash returns true, leaves the heading
\* revision the one it was, and the stash is in the stash list afterwards
\* if and only if keepStash; applyStash of an empty revision, or of a name
\* no stored stash has, returns false and leaves the head, the stashes and
\* the document as they were
C14_ApplyStash ==
    [][Ran({"applyStash"}) =>
          /\ ~isEmpty(last'.arg.rev) =>
                /\ last'.ret
                /\ head'.rev = head.rev
                /\ last'.arg.rev \in SeqToSet(stashes') <=> last'.arg.keep
          /\ (\/ isEmpty(last'.arg.rev)
              \/ last'.arg.name # "" /\ StashesNamed(last'.arg.name) = {}) =>
                /\ ~last'.ret
                /\ head' = head /\ stashes' = stashes /\ live' = live]_vars

\* a stash asked for by its name has been applied onto a document that
\* differed from it, and is not kept
C14_Witness ==
    /\ last.op = "applyStash"
    /\ last.ret
    /\ last.arg.name = "msg"
    /\ ~last.arg.keep
    /\ stashes = <<>>
    /\ docPending
    /\ head.rev # root

\* the selection names items of the diff only
InRange(sel, d) == \A i \in sel : i >= 0 /\ i < Len(d)

\* C15: stash with a non-empty selection of indices of the diff returns
\* true and adds one revision to the stash list, holding exactly the
\* selected diff items; with keepChanges false every selected entity is
\* back at its indexed state afterwards, with keepChanges true the
\* document is as it was
C15_StashSelectedItems ==
    [][(/\ Ran({"stash"})
        /\ last'.arg.sel # {}
        /\ InRange(last'.arg.sel, getDiff(head, live).diff))
          => /\ last'.ret
             /\ \E n \in DOMAIN revs' \ DOMAIN revs :
                  /\ stashes' = Append(stashes, n)
                  /\ revs'[n].items =
                        AtIndices(getDiff(head, live).diff, last'.arg.sel)
             /\ IF last'.arg.keep
                THEN live' = live
                ELSE \A it \in AtIndices(getDiff(head, live).diff, last'.arg.sel) :
                        live'[it.target] = Recorded(head.index[it.target])]_vars

\* a change of the document has been stashed away, on a committed
\* revision
C15_Witness ==
    /\ last.op = "stash"
    /\ last.ret
    /\ ~last.arg.keep
    /\ Len(stashes) = 1
    /\ head.rev # root
    /\ docPending

\* the revisions held as stashes: those of the stash list and the one in
\* the quick slot
StashRevs(st, q) == SeqToSet(st) \cup ({q} \ {EmptyRev})

\* C16: stash revisions are never part of the main tree: stash,
\* quickStashAll, applyStash and applyQuickStash leave the set of revisions
\* under the root, the hash of the tree and the heading revision as they
\* were, and getRevisionById from the root finds no stash
C16_StashesOutsideTree ==
    [][Ran({"stash", "quickStashAll", "applyStash", "applyQuickStash"}) =>
          /\ Subtree(revs', root') = Subtree(revs, root)
          /\ calculateHash(revs', root') = calculateHash(revs, root)
          /\ head'.rev = head.rev
          /\ \A r \in StashRevs(stashes', quick') :
                isEmpty(getRevisionById(revs', root', r))]_vars

\* a stash has been applied and kept, on a committed revision
C16_Witness ==
    /\ last.op = "applyStash"
    /\ last.ret
    /\ last.arg.keep
    /\ Len(stashes) = 1
    /\ head.rev # root
    /\ docPending

\* C17: applyQuickStash returns false and changes nothing when no quick
\* stash is stored; when one is stored it returns true, the quick slot is
\* empty afterwards, the heading revision and the index are as they were
\* and exactly one change message is sent
C17_ApplyQuickStash ==
    [][Ran({"applyQuickStash"}) =>
          IF ~StashesHasQuickStash(quick)
          THEN /\ ~last'.ret
               /\ <<revs', root', head', stashes', quick', pack', live'>>
                    = <<revs, root, head, stashes, quick, pack, live>>
          ELSE /\ last'.ret
               /\ ~StashesHasQuickStash(quick')
               /\ head'.rev = head.rev /\ head'.index = head.index
               /\ last'.sent = 1]_vars

\* C18: appendSubtree with an empty parent id fails explicitly, and leaves
\* the tree and the head as they were
C18_EmptyParentIdFails ==
    [][(Ran({"appendSubtree"}) /\ last'.arg.id = NoId)
          => (/\ ~last'.ret
              /\ revs' = revs /\ root' = root /\ head' = head)]_vars

\* C19: once a revision is flushed its item set never changes, under any
\* operation other than reset and deserialize: no item is added to or
\* replaced in a flushed revision
C19_FlushedItemsNeverChange ==
    [][\A r \in DOMAIN revs :
          (/\ revs[r].flushed
           /\ r \in DOMAIN revs'
           /\ last'.op \notin {"load", "reload"})
          => revs'[r].items = revs[r].items]_vars

OneItemPerTarget(rev) ==
    \A a, b \in rev.items : a.target = b.target => a = b

C21_LoadPointsTheHead ==
    [][Ran({"reload"}) =>
          /\ head'.rev = serialize(revs, root, head, stashes, quick, pack).headRevisionId
          /\ ~head'.valid
          /\ head'.index = serialize(revs, root, head, stashes, quick, pack).index]_vars

\* a project whose head is on a committed revision, with a valid index
\* that holds items, was written and read back
C21_Witness ==
    /\ last.op = "reload"
    /\ head.rev # root
    /\ ~head.valid
    /\ head.index # EmptyIndex
    /\ stashes = <<>>

\* the step runs a command up to its call of getDiff, and getDiff has no
\* cached diff to serve: it compares the document with the index
ComparesWithIndex ==
    /\ head.diffOutdated
    /\ \/ Ran({"commit", "stash", "resetChanges"}) /\ last'.arg.sel # {}
       \/ Ran({"resetAllChanges"})
       \/ Ran({"quickStashAll"}) /\ ~hasQuickStash(quick)

\* C22: no diff is computed against an invalid index: when commit, stash,
\* resetChanges, resetAllChanges or quickStashAll has getDiff compare the
\* document with the index, also right after deserialize, the index has
\* been rebuilt and is valid
C22_NoDiffOnInvalidIndex ==
    [][ComparesWithIndex => head.valid]_vars

\* C23: cherryPick and applyStash send no change message while the head
\* is on the revision or stash picked from: each sends its message after
\* the head is back on the heading revision it had before the call, and
\* an observer sees no other heading revision
C23_NotifiedAfterHeadIsBack ==
    [][(Ran({"cherryPick", "applyStash"}) /\ last'.sent > 0) =>
          /\ last'.sent = 1
          /\ last'.seen = head.rev
          /\ head'.rev = head.rev]_vars

\* items were picked from the root with the head on a committed revision,
\* while a stash is filed
C23_Witness ==
    /\ last.op = "cherryPick"
    /\ last.sent = 1
    /\ last.arg.rev = root
    /\ head.rev # root
    /\ last.seen = head.rev
    /\ Len(stashes) = 1

\* the entities the items of a set are about
Targets(items) == {it.target : it \in items}

CallsGetDiff ==
    \/ Ran({"commit", "resetChanges"}) /\ last'.arg.sel # {}
    \/ Ran({"resetAllChanges"})

\* the step is the delivery of a document change to changeListenerCallback
Notified == docPending /\ ~docPending'

\* C26: every document change delivered to changeListenerCallback marks
\* the diff outdated, and the diff a command gets from getDiff is the
\* cached one while it is not outdated and otherwise the comparison of
\* the live state of every tracked item with the index
C26_DiffCachedUntilNotified ==
    [][/\ Notified => head'.diffOutdated
       /\ CallsGetDiff =>
             /\ ~head'.diffOutdated
             /\ head'.diff = IF head.diffOutdated
                             THEN ComputeDiff(head.index, live)
                             ELSE head.diff]_vars

\* item "A" was committed with payload 2, edited back to 1, and the commit
\* that followed the notification has recorded payload 1 under the first
C26_Witness ==
    /\ last.op = "commit"
    /\ last.ret
    /\ ~head.diffOutdated
    /\ head.rev # root
    /\ \E it \in revs[head.rev].items : it.target = "A" /\ it.payload = 1
    /\ \E p \in DOMAIN revs \ {root} :
          /\ head.rev \in SeqToSet(revs[p].children)
          /\ \E it \in revs[p].items : it.target = "A" /\ it.payload = 2

C28_HeadInTree ==
    /\ ~isEmpty(head.rev)
    /\ head.rev \in Reachable(revs, root)

\* the step runs a command in one of the cases in which it is to fail or
\* to do nothing
FailsOrDoesNothing ==
    \/ /\ Ran({"commit", "stash", "resetChanges"})
       /\ \/ last'.arg.sel = {}
          \/ ~InRange(last'.arg.sel, getDiff(head, live).diff)
    \/ /\ Ran({"moveHead", "checkout", "cherryPick", "applyStash"})
       /\ isEmpty(last'.arg.rev)
    \/ Ran({"quickStashAll"}) /\ StashesHasQuickStash(quick)
    \/ Ran({"applyQuickStash"}) /\ ~StashesHasQuickStash(quick)
    \/ /\ Ran({"appendSubtree"})
       /\ last'.arg.id # NoId
       /\ last'.arg.id \notin Reachable(revs, root)

\* C29: a command that fails or does nothing sends no change message:
\* commit, stash and resetChanges with an empty or out-of-range selection,
\* moveHead, checkout, cherryPick and applyStash with an empty revision,
\* quickStashAll while a quick stash is stored, applyQuickStash while none
\* is, appendSubtree with the id of no revision of the tree
C29_NoMessageOnFailure ==
    [][FailsOrDoesNothing => last'.sent = 0]_vars

\* C30: applyQuickStash right after a quickStashAll that returned true,
\* with no edit and no head move in between, gives every tracked item the
\* state it had before the quickStashAll
C30_QuickStashRoundTrip ==
    [][(last.op = "quickStashAll" /\ last.ret /\ Ran({"applyQuickStash"}))
          => live' = last.before]_vars

\* C31: resetChanges and stash with a selection that holds an index
\* outside the diff, next to valid ones or not, return false, reset no
\* entity of the document and add no stash
C31_InvalidSelectionDoesNothing ==
    [][(/\ Ran({"resetChanges", "stash"})
        /\ ~InRange(last'.arg.sel, getDiff(head, live).diff))
          => /\ ~last'.ret
             /\ live' = live
             /\ stashes' = stashes]_vars

====
